---- MODULE Spec2Model ----
(***************************************************************************)
(* A model of hecto, a terminal text editor: the grapheme Row (row.rs),    *)
(* the Document (document.rs) and the Editor's cursor, viewport and        *)
(* prompt loop (editor.rs).                                                *)
(*                                                                         *)
(* Text is a sequence of Unicode scalar values.  Three kinds of scalar     *)
(* value are told apart: ordinary letters ("a", "b"), a combining mark     *)
(* ("M", standing for U+0301, of the class Extend) and the controls CR and *)
(* LF.  A byte offset into a string is represented by the number of        *)
(* scalar values before it, which orders and identifies positions the      *)
(* same way.                                                               *)
(***************************************************************************)
EXTENDS Integers, Sequences, FiniteSets, TLC

VARIABLES
    should_quit,      \* Editor.should_quit
    terminal,         \* Editor.terminal: its size, [width, height]
    document,         \* Editor.document / the Document under test: [rows, path, dirty]
    status_message,   \* Editor.status_message, by kind
    cursor_position,  \* Editor.cursor_position: [x, y]
    offset,           \* Editor.offset: [x, y]
    pc,               \* where the control loop waits for its next key
    result,           \* Editor::prompt's local `result`
    old_pos,          \* Editor::search's local `old_pos`
    pressed_key,      \* the key read last by Terminal::read_key
    disk,             \* the file system: path -> [exists, bytes]
    call,             \* the Document method called last, with its arguments
    synced,           \* the rows as loaded or as last written out in full
    row,              \* the Row under test
    row_in,           \* the Row the test began with
    row_calls,        \* the Row methods applied to it so far
    row_ret,          \* the Row that Row::split returned last
    prompt_ret,       \* what Editor::prompt returned last: None or Some(text)
    typed             \* the rows and the cursor before the character typed last, when
                      \* they are kept for comparison: None or Some([rows, cursor, c])

vars == <<should_quit, terminal, document, status_message, cursor_position, offset,
          pc, result, old_pos, pressed_key, disk, call, synced, row, row_in, row_calls,
          row_ret, prompt_ret, typed>>

editorVars == <<should_quit, terminal, status_message, cursor_position, offset,
                pc, result, old_pos, pressed_key, prompt_ret, typed>>
rowVars == <<row, row_in, row_calls, row_ret>>

----------------------------------------------------------------------------
(* Bounds of the model *)

\* scalar values in a Row drawn for a Row-level check
MaxRowLen == 3
\* Row methods applied in a Row-level check
MaxRowCalls == 2
\* rows of a Document drawn for a Document-level check
MaxDocRows == 3
\* scalar values in all the rows of such a Document together
MaxDocScalars == 3
\* rows, and scalar values in all, that a Document grows to under a sequence of
\* Document methods
MaxSeqRows == 2
MaxSeqScalars == 2
\* rows, and scalar values in all, that the edited document grows to
MaxEditRows == 3
MaxEditScalars == 2
\* scalar values typed into the search prompt
MaxQuery == 1
\* scalar values typed into the "Save as: " prompt
MaxPath == 1
\* scalar values in a pattern handed to Row::find or Document::find, and the
\* rows, and scalar values in all, of a Document searched
MaxPattern == 2
MaxFindRows == 2
MaxFindScalars == 3
\* rows of the long document the viewport scrolls over, and the scalar values
\* typed into it
LongRows == 12
MaxLongScalars == 1

----------------------------------------------------------------------------
(* Characters and grapheme clusters (unicode_segmentation, extended clusters) *)

None == <<>>
Some(v) == <<v>>

Min(a, b) == IF a <= b THEN a ELSE b
Max(a, b) == IF a >= b THEN a ELSE b

LF == "\n"
CR == "\r"
Mark == "M"
Letters == {"a", "b"}
Chars == Letters \cup {Mark}

IsExtend(c) == c = Mark
IsControl(c) == c \in {CR, LF}

\* A cluster begins at 1-based index i: at the start of the text, before anything
\* that is not Extend, and after a control (GB1, GB4, GB9, GB999).
IsBoundary(s, i) == \/ i = 1
                    \/ ~IsExtend(s[i])
                    \/ IsControl(s[i - 1])

ClusterStarts(s) == {i \in 1..Len(s) : IsBoundary(s, i)}

\* s.graphemes(true).count()
GraphemeCount(s) == Cardinality(ClusterStarts(s))

\* 1-based index at which grapheme number k (from 0) begins; Len(s)+1 past the last
GraphemeStart(s, k) ==
    IF k >= GraphemeCount(s) THEN Len(s) + 1
    ELSE CHOOSE i \in ClusterStarts(s) :
             Cardinality({j \in ClusterStarts(s) : j < i}) = k

\* s.graphemes(true).take(n).collect()
TakeGraphemes(s, n) == SubSeq(s, 1, GraphemeStart(s, n) - 1)

\* s.graphemes(true).skip(n).collect()
SkipGraphemes(s, n) == SubSeq(s, GraphemeStart(s, n), Len(s))

----------------------------------------------------------------------------
(* Row (row.rs) *)

\* Row::update_grapheme_count
update_grapheme_count(r) == [r EXCEPT !.grapheme_count = GraphemeCount(r.content)]

\* impl From<String> for Row
Row_from(s) == update_grapheme_count([content |-> s, grapheme_count |-> 0])

\* #[derive(Default)]
Row_default == [content |-> <<>>, grapheme_count |-> 0]

\* Row::len
Row_len(r) == r.grapheme_count

Row_insert_or_append_NoRecount(r, idx, c) ==
    IF idx >= Row_len(r)
    THEN [r EXCEPT !.content = Append(r.content, c)]
    ELSE [r EXCEPT !.content = TakeGraphemes(r.content, idx) \o <<c>>
                                   \o SkipGraphemes(r.content, idx)]

\* Row::insert_or_append
Row_insert_or_append(r, idx, c) ==
    update_grapheme_count(
        IF idx >= Row_len(r)
        THEN [r EXCEPT !.content = Append(r.content, c)]
        ELSE [r EXCEPT !.content = TakeGraphemes(r.content, idx) \o <<c>>
                                       \o SkipGraphemes(r.content, idx)])

\* Row::push
Row_push(r, other) ==
    update_grapheme_count([r EXCEPT !.content = r.content \o other.content])

\* Row::delete
Row_delete(r, idx) ==
    IF idx >= Row_len(r) THEN r
    ELSE update_grapheme_count(
             [r EXCEPT !.content = TakeGraphemes(r.content, idx)
                                       \o SkipGraphemes(r.content, idx + 1)])

Row_split_ByScalars(r, idx) ==
    [self |-> update_grapheme_count(
                  [r EXCEPT !.content = SubSeq(r.content, 1, Min(idx, Len(r.content)))]),
     ret  |-> Row_from(SubSeq(r.content, Min(idx, Len(r.content)) + 1, Len(r.content)))]

\* Row::split: the row as left behind, and the row returned
Row_split(r, idx) ==
    [self |-> update_grapheme_count([r EXCEPT !.content = TakeGraphemes(r.content, idx)]),
     ret  |-> Row_from(SkipGraphemes(r.content, idx))]

----------------------------------------------------------------------------
(* Document (document.rs) *)

\* Vec::remove(index), Vec::insert(index, element); index counts from 0
VecRemove(v, index) == SubSeq(v, 1, index) \o SubSeq(v, index + 2, Len(v))
VecInsert(v, index, e) == SubSeq(v, 1, index) \o <<e>> \o SubSeq(v, index + 1, Len(v))

\* #[derive(Default)]
Document_default == [rows |-> <<>>, path |-> None, dirty |-> FALSE]

\* Document::len
Document_len(doc) == Len(doc.rows)

\* Document::get(index): the row, or None
Document_get(doc, index) ==
    IF index < Len(doc.rows) THEN Some(doc.rows[index + 1]) ELSE None

insert_newline_SuffixFirst(doc, pos) ==
    IF pos.y > Document_len(doc) THEN doc
    ELSE LET rows1 == IF pos.y = Document_len(doc)
                      THEN Append(doc.rows, Row_default) ELSE doc.rows
             sp == Row_split(rows1[pos.y + 1], pos.x)
             rows2 == [rows1 EXCEPT ![pos.y + 1] = sp.self]
         IN [doc EXCEPT !.dirty = TRUE,
                        !.rows = VecInsert(rows2, pos.y, sp.ret)]

\* Document::insert_newline
insert_newline(doc, pos) ==
    IF pos.y > Document_len(doc) THEN doc
    ELSE LET rows1 == IF pos.y = Document_len(doc)
                      THEN Append(doc.rows, Row_default) ELSE doc.rows
             sp == Row_split(rows1[pos.y + 1], pos.x)
             rows2 == [rows1 EXCEPT ![pos.y + 1] = sp.self]
         IN [doc EXCEPT !.dirty = TRUE,
                        !.rows = VecInsert(rows2, pos.y + 1, sp.ret)]

\* Document::insert_or_append
Document_insert_or_append(doc, pos, c) ==
    IF c = LF THEN insert_newline(doc, pos)
    ELSE IF pos.y >= Document_len(doc)
    THEN [doc EXCEPT !.dirty = TRUE, !.rows = Append(doc.rows, Row_from(<<c>>))]
    ELSE [doc EXCEPT !.dirty = TRUE,
                     !.rows[pos.y + 1] = Row_insert_or_append(doc.rows[pos.y + 1], pos.x, c)]

Document_delete_JoinReversed(doc, pos) ==
    LET len == Document_len(doc) IN
    IF pos.y >= len THEN doc
    ELSE IF pos.x = Row_len(doc.rows[pos.y + 1]) /\ pos.y < len - 1
    THEN LET next_row == doc.rows[pos.y + 2]
             rows1 == VecRemove(doc.rows, pos.y + 1)
         IN [doc EXCEPT !.dirty = TRUE,
                        !.rows = [rows1 EXCEPT ![pos.y + 1] = Row_push(next_row, rows1[pos.y + 1])]]
    ELSE [doc EXCEPT !.dirty = TRUE,
                     !.rows[pos.y + 1] = Row_delete(doc.rows[pos.y + 1], pos.x)]

\* Document::delete (len.saturating_sub(1) is len - 1: len > pos.y >= 0 here)
Document_delete(doc, pos) ==
    LET len == Document_len(doc) IN
    IF pos.y >= len THEN doc
    ELSE IF pos.x = Row_len(doc.rows[pos.y + 1]) /\ pos.y < len - 1
    THEN LET next_row == doc.rows[pos.y + 2]
             rows1 == VecRemove(doc.rows, pos.y + 1)
         IN [doc EXCEPT !.dirty = TRUE,
                        !.rows = [rows1 EXCEPT ![pos.y + 1] = Row_push(rows1[pos.y + 1], next_row)]]
    ELSE [doc EXCEPT !.dirty = TRUE,
                     !.rows[pos.y + 1] = Row_delete(doc.rows[pos.y + 1], pos.x)]

\* Document::set_path
Document_set_path(doc, path) == [doc EXCEPT !.path = Some(path)]

\* Document::has_path
Document_has_path(doc) == doc.path # None

(* The file system.  A file is [exists, bytes]. *)
NoFile == [exists |-> FALSE, bytes |-> <<>>]
File(bytes) == [exists |-> TRUE, bytes |-> bytes]

\* The write_all calls of Document::save, in order: each row, then a line feed
RECURSIVE SaveWrites(_)
SaveWrites(rows) ==
    IF rows = <<>> THEN <<>>
    ELSE <<rows[1].content, <<LF>>>> \o SaveWrites(Tail(rows))

RECURSIVE Concat(_)
Concat(chunks) == IF chunks = <<>> THEN <<>> ELSE chunks[1] \o Concat(Tail(chunks))

\* What can happen to the I/O of Document::save: File::create fails; write_all
\* number `at` (from 0) fails after the earlier ones went through; the final seek
\* fails; or nothing fails.
SaveOutcomes(doc) ==
    {[kind |-> k, at |-> 0] : k \in {"ok", "create_err", "seek_err"}}
        \cup {[kind |-> "write_err", at |-> j] : j \in 0..(2 * Len(doc.rows) - 1)}

\* Document::save under I/O outcome io: the document, the file system and whether
\* it returned Ok
Document_save(doc, fs, io) ==
    IF doc.path = None
    THEN [doc |-> [doc EXCEPT !.dirty = FALSE], disk |-> fs, ok |-> TRUE]
    ELSE LET p == doc.path[1]
             w == SaveWrites(doc.rows)
         IN CASE io.kind = "create_err" ->
                     [doc |-> doc, disk |-> fs, ok |-> FALSE]
              [] io.kind = "write_err" ->
                     [doc |-> doc,
                      disk |-> [fs EXCEPT ![p] = File(Concat(SubSeq(w, 1, io.at)))],
                      ok |-> FALSE]
              [] io.kind = "seek_err" ->
                     [doc |-> doc, disk |-> [fs EXCEPT ![p] = File(Concat(w))], ok |-> FALSE]
              [] OTHER ->
                     [doc |-> [doc EXCEPT !.dirty = FALSE],
                      disk |-> [fs EXCEPT ![p] = File(Concat(w))], ok |-> TRUE]

\* Whether Document::save under io put every row, each with its line feed, into
\* the file at the document's path
WroteEveryRow(doc, io) == doc.path # None /\ io.kind \in {"ok", "seek_err"}

\* BufRead::lines: cut at each line feed, drop it and a carriage return right
\* before it; text after the last line feed is a line when it is not empty
RECURSIVE Lines(_)
Lines(bytes) ==
    IF bytes = <<>> THEN <<>>
    ELSE LET nl == {i \in 1..Len(bytes) : bytes[i] = LF} IN
         IF nl = {} THEN <<bytes>>
         ELSE LET i == CHOOSE k \in nl : \A j \in nl : k <= j
                  line == SubSeq(bytes, 1, i - 1)
                  n == Len(line)
              IN <<IF n > 0 /\ line[n] = CR THEN SubSeq(line, 1, n - 1) ELSE line>>
                     \o Lines(SubSeq(bytes, i + 1, Len(bytes)))

\* A byte that is part of no UTF-8 text: BufRead::lines gives an error (invalid
\* data) for a line that holds one
NotUtf8 == "?"
ValidUtf8(bytes) == \A i \in 1..Len(bytes) : bytes[i] # NotUtf8

\* Document::open: Some(document), or None for an I/O error
Document_open(path, fs) ==
    IF ~fs[path].exists \/ ~ValidUtf8(fs[path].bytes) THEN None
    ELSE LET lines == Lines(fs[path].bytes)
         IN Some([rows |-> [i \in 1..Len(lines) |-> Row_from(lines[i])],
                  path |-> Some(path), dirty |-> FALSE])

----------------------------------------------------------------------------
(* Search: the regex crate on the patterns the model types, Row::find and      *)
(* Document::find.  A pattern is the query as typed: "(" opens a group that is  *)
(* never closed, so a query holding one does not parse; any other query is a    *)
(* literal, matched scalar value by scalar value.                               *)

\* Regex::from_str(query).is_ok()
RegexValid(query) == \A i \in 1..Len(query) : query[i] # "("

\* The pattern matches the text at offset i (scalar values before the match)
MatchesAt(query, text, i) ==
    /\ i + Len(query) <= Len(text)
    /\ SubSeq(text, i + 1, i + Len(query)) = query

\* Offsets of the matches at or after offset `from`
MatchesFrom(query, text, from) == {i \in from..Len(text) : MatchesAt(query, text, i)}

SetMin(S) == CHOOSE m \in S : \A n \in S : m <= n

\* Regex::find(text): Some(start of the leftmost match)
RegexFind(query, text) ==
    LET ms == MatchesFrom(query, text, 0)
    IN IF ms = {} THEN None ELSE Some(SetMin(ms))

\* Regex::find_iter(text).last(), searching on from offset `from`: the matches are
\* taken left to right without overlap, an empty match advancing by one
RECURSIVE RegexFindIterLast(_, _, _, _)
RegexFindIterLast(query, text, from, last) ==
    LET ms == MatchesFrom(query, text, from)
    IN IF ms = {} THEN last
       ELSE LET m == SetMin(ms)
            IN RegexFindIterLast(query, text, m + Max(Len(query), 1), Some(m))

Forward == "Forward"
Backward == "Backward"

Row_find_BackwardWholeRow(r, query, limit, direction) ==
    IF limit > r.grapheme_count THEN None
    ELSE LET start == IF direction = Forward THEN limit ELSE 0
             end == r.grapheme_count
             first == GraphemeStart(r.content, start)
             substring == SubSeq(r.content, first, GraphemeStart(r.content, end) - 1)
             target == IF direction = Forward
                       THEN RegexFind(query, substring)
                       ELSE RegexFindIterLast(query, substring, 0, None)
         IN IF target = None THEN None
            ELSE LET hits == {i \in 0..(GraphemeCount(substring) - 1) :
                                  GraphemeStart(substring, i) - 1 = target[1]}
                 IN IF hits = {} THEN None ELSE Some(SetMin(hits) + start)

\* Row::find
Row_find(r, query, limit, direction) ==
    IF limit > r.grapheme_count THEN None
    ELSE LET start == IF direction = Forward THEN limit ELSE 0
             end == IF direction = Forward THEN r.grapheme_count ELSE limit
             first == GraphemeStart(r.content, start)
             substring == SubSeq(r.content, first, GraphemeStart(r.content, end) - 1)
             target == IF direction = Forward
                       THEN RegexFind(query, substring)
                       ELSE RegexFindIterLast(query, substring, 0, None)
         IN IF target = None THEN None
            ELSE LET hits == {i \in 0..(GraphemeCount(substring) - 1) :
                                  GraphemeStart(substring, i) - 1 = target[1]}
                 IN IF hits = {} THEN None ELSE Some(SetMin(hits) + start)

\* The loop of Document::find with `n` iterations left
RECURSIVE FindLoop(_, _, _, _, _)
FindLoop(doc, query, pos, direction, n) ==
    IF n = 0 THEN None
    ELSE IF pos.y >= Document_len(doc) THEN None
    ELSE LET x == Row_find(doc.rows[pos.y + 1], query, pos.x, direction)
         IN IF x # None THEN Some([pos EXCEPT !.x = x[1]])
            ELSE IF direction = Forward
            THEN FindLoop(doc, query, [x |-> 0, y |-> pos.y + 1], direction, n - 1)
            ELSE LET y == Max(pos.y - 1, 0)
                 IN FindLoop(doc, query, [x |-> Row_len(doc.rows[y + 1]), y |-> y],
                             direction, n - 1)

\* Document::find
Document_find(doc, query, limit, direction) ==
    IF limit.y > Document_len(doc) THEN None
    ELSE FindLoop(doc, query, limit, direction,
                  IF direction = Forward THEN Max(Document_len(doc) - limit.y, 0)
                  ELSE limit.y + 1)

----------------------------------------------------------------------------
(* Editor (editor.rs).  An editor value e is [document, cursor_position,       *)
(* offset, terminal]: the fields the cursor and viewport code reads and writes. *)

\* const SCROLL_OFFSET
SCROLL_OFFSET == 5

\* usize::saturating_sub; saturating_add never saturates at the model's sizes
saturating_sub(a, b) == IF a >= b THEN a - b ELSE 0
saturating_add(a, b) == a + b

scroll_NoTopMargin(e) ==
    LET x == e.cursor_position.x
        y == e.cursor_position.y
        width == e.terminal.width
        height == e.terminal.height
        oy == IF y < e.offset.y
              THEN y
              ELSE IF y >= saturating_sub(saturating_add(e.offset.y, height), SCROLL_OFFSET)
              THEN Min(saturating_add(
                           saturating_sub(saturating_add(y, SCROLL_OFFSET), height), 1),
                       saturating_sub(Document_len(e.document), height))
              ELSE e.offset.y
        ox == IF x < e.offset.x THEN x
              ELSE IF x >= saturating_add(e.offset.x, width)
              THEN saturating_add(saturating_sub(x, width), 1)
              ELSE e.offset.x
    IN [e EXCEPT !.offset = [x |-> ox, y |-> oy]]

\* Editor::scroll
scroll(e) ==
    LET x == e.cursor_position.x
        y == e.cursor_position.y
        width == e.terminal.width
        height == e.terminal.height
        oy == IF y < saturating_add(e.offset.y, SCROLL_OFFSET)
              THEN saturating_sub(y, SCROLL_OFFSET)
              ELSE IF y >= saturating_sub(saturating_add(e.offset.y, height), SCROLL_OFFSET)
              THEN Min(saturating_add(
                           saturating_sub(saturating_add(y, SCROLL_OFFSET), height), 1),
                       saturating_sub(Document_len(e.document), height))
              ELSE e.offset.y
        ox == IF x < e.offset.x THEN x
              ELSE IF x >= saturating_add(e.offset.x, width)
              THEN saturating_add(saturating_sub(x, width), 1)
              ELSE e.offset.x
    IN [e EXCEPT !.offset = [x |-> ox, y |-> oy]]

\* usize::checked_ilog10: None for 0, else the base-10 logarithm rounded down
RECURSIVE ilog10(_)
ilog10(n) == IF n < 10 THEN 0 ELSE 1 + ilog10(n \div 10)

checked_ilog10(n) == IF n = 0 THEN None ELSE Some(ilog10(n))

\* Option::unwrap_or
unwrap_or(opt, default) == IF opt = None THEN default ELSE opt[1]

\* Editor::num_col_width: the digits of the row count, and one column more
num_col_width(e) == unwrap_or(checked_ilog10(Document_len(e.document)), 0) + 1 + 1

\* Editor::useful_text_width: the columns draw_row renders of each row
useful_text_width(e) == saturating_sub(e.terminal.width, num_col_width(e))

\* match self.document.get(y) { Some(row) => row.len(), None => 0 }
RowLenAt(doc, y) ==
    LET r == Document_get(doc, y) IN IF r = None THEN 0 ELSE Row_len(r[1])

move_left_ToRowStart(doc, x, y) ==
    IF x > 0 THEN [x |-> x - 1, y |-> y]
    ELSE IF y > 0 THEN [x |-> 0, y |-> y - 1]
    ELSE [x |-> x, y |-> y]

\* Editor::move_cursor, Key::Left
move_left(doc, x, y) ==
    IF x > 0 THEN [x |-> x - 1, y |-> y]
    ELSE IF y > 0 THEN [x |-> RowLenAt(doc, y - 1), y |-> y - 1]
    ELSE [x |-> x, y |-> y]

\* Editor::move_cursor, Key::Right
move_right(doc, x, y) ==
    LET x_max == RowLenAt(doc, y)
        y_max == saturating_sub(Document_len(doc), 1)
    IN IF x < x_max THEN [x |-> x + 1, y |-> y]
       ELSE IF y < y_max THEN [x |-> 0, y |-> y + 1]
       ELSE [x |-> x, y |-> y]

resnap_Never(doc, to) == to

\* Editor::move_cursor: "Re-snap x to width for new line"
resnap(doc, to) == [x |-> Min(to.x, RowLenAt(doc, to.y)), y |-> to.y]

\* Editor::move_cursor
move_cursor(e, k) ==
    LET x == e.cursor_position.x
        y == e.cursor_position.y
        x_max == RowLenAt(e.document, y)
        y_max == saturating_sub(Document_len(e.document), 1)
        height == e.terminal.height
        to == CASE k = "Up" -> [x |-> x, y |-> saturating_sub(y, 1)]
                [] k = "Down" -> [x |-> x, y |-> Min(saturating_add(y, 1), y_max)]
                [] k = "Left" -> move_left(e.document, x, y)
                [] k = "Right" -> move_right(e.document, x, y)
                [] k = "PageUp" -> [x |-> x, y |-> saturating_sub(y, height)]
                [] k = "PageDown" -> [x |-> x, y |-> Min(saturating_add(y, height), y_max)]
                [] k = "Home" -> [x |-> 0, y |-> y]
                [] k = "End" -> [x |-> x_max, y |-> y]
                [] OTHER -> [x |-> x, y |-> y]
    IN scroll([e EXCEPT !.cursor_position = resnap(e.document, to)])

press_char_StaysPut(e, c) ==
    scroll([e EXCEPT !.document = Document_insert_or_append(e.document, e.cursor_position, c)])

\* Editor::process_keypress, Key::Char(c)
press_char(e, c) ==
    move_cursor([e EXCEPT !.document = Document_insert_or_append(e.document, e.cursor_position, c)],
                "Right")

\* Editor::process_keypress, Key::Delete
press_delete(e) ==
    scroll([e EXCEPT !.document = Document_delete(e.document, e.cursor_position)])

press_backspace_NoGuard(e) ==
    LET left == move_cursor(e, "Left")
    IN scroll([left EXCEPT !.document = Document_delete(left.document, left.cursor_position)])

\* Editor::process_keypress, Key::Backspace
press_backspace(e) ==
    IF e.cursor_position.x > 0 \/ e.cursor_position.y > 0
    THEN LET left == move_cursor(e, "Left")
         IN scroll([left EXCEPT !.document =
                                    Document_delete(left.document, left.cursor_position)])
    ELSE e

search_callback_MarksDirty(e, k, query) ==
    LET moved == k \in {"Right", "Down"}
        direction == IF k \in {"Left", "Up"} THEN Backward ELSE Forward
        e1 == IF moved THEN move_cursor(e, "Right") ELSE e
        found == IF RegexValid(query)
                 THEN Document_find(e1.document, query, e1.cursor_position, direction)
                 ELSE None
    IN IF found # None
       THEN scroll([e1 EXCEPT !.cursor_position = found[1], !.document.dirty = TRUE])
       ELSE IF moved THEN move_cursor(e1, "Left")
       ELSE e1

\* The callback Editor::search hands to Editor::prompt, run on key k with the
\* query typed so far
search_callback(e, k, query) ==
    LET moved == k \in {"Right", "Down"}
        direction == IF k \in {"Left", "Up"} THEN Backward ELSE Forward
        e1 == IF moved THEN move_cursor(e, "Right") ELSE e
        found == IF RegexValid(query)
                 THEN Document_find(e1.document, query, e1.cursor_position, direction)
                 ELSE None
    IN IF found # None THEN scroll([e1 EXCEPT !.cursor_position = found[1]])
       ELSE IF moved THEN move_cursor(e1, "Left")
       ELSE e1

search_end_KeepsCursor(e, query, saved) == e

\* The end of Editor::search: without a query the cursor goes back to old_pos
search_end(e, query, saved) ==
    IF query = None THEN scroll([e EXCEPT !.cursor_position = saved]) ELSE e

\* Editor::default and Editor::from_file_path up to common_init: the document and
\* the status message, by kind, that the editor is built from
Editor_default == [document |-> Document_default, status_message |-> ""]

Editor_from_file_path(path, fs) ==
    LET doc == Document_open(path, fs)
    IN IF doc # None
       THEN [document |-> doc[1], status_message |-> "help"]
       ELSE [document |-> Document_default, status_message |-> "open_failed"]

\* main with the argument arg (None, or Some(path)) and the terminal size term
\* (None when Terminal::init fails): "panicked" at panic!("Not a file"), "failed"
\* when main returns the error of common_init, else the editor that runs
main(arg, fs, term) ==
    IF arg # None /\ ~fs[arg[1]].exists
    THEN [outcome |-> "panicked", editor |-> Editor_default]
    ELSE LET e == IF arg = None THEN Editor_default ELSE Editor_from_file_path(arg[1], fs)
         IN [outcome |-> IF term = None THEN "failed" ELSE "run", editor |-> e]

----------------------------------------------------------------------------
(* Inputs *)

Position(x, y) == [x |-> x, y |-> y]

\* Sequences over S with at most n elements
SeqsUpTo(S, n) == UNION {[1..k -> S] : k \in 0..n}

RECURSIVE ScalarsIn(_)
ScalarsIn(rows) ==
    IF rows = <<>> THEN 0 ELSE Len(rows[1].content) + ScalarsIn(Tail(rows))

\* The scalar values a document's rows are drawn from
DocChars == {"a", Mark}

\* Vec<Row> values within the Document-level bounds
DocRowsUpTo(nrows, nscalars) ==
    {rows \in SeqsUpTo({Row_from(t) : t \in SeqsUpTo(DocChars, nscalars)}, nrows) :
         ScalarsIn(rows) <= nscalars}

----------------------------------------------------------------------------
(* The states in which nothing has been called or pressed yet *)

NoCall == [fn |-> "none", pos |-> Position(0, 0), c |-> "", path |-> None,
           io |-> [kind |-> "ok", at |-> 0], ok |-> TRUE,
           query |-> <<>>, direction |-> Forward, found |-> None]

Paths == {"p"}

EditorIdle ==
    /\ should_quit = FALSE
    /\ terminal = [width |-> 1, height |-> 1]
    /\ status_message = ""
    /\ cursor_position = Position(0, 0)
    /\ offset = Position(0, 0)
    /\ pc = "run"
    /\ result = <<>>
    /\ old_pos = Position(0, 0)
    /\ pressed_key = [key |-> "none", c |-> ""]
    /\ prompt_ret = None
    /\ typed = None

RowIdle ==
    /\ row = Row_default
    /\ row_in = Row_default
    /\ row_calls = <<>>
    /\ row_ret = Row_default

----------------------------------------------------------------------------
(* Row methods applied to a Row drawn from the bounded set *)

InitRow ==
    /\ EditorIdle
    /\ document = Document_default
    /\ disk = [p \in Paths |-> NoFile]
    /\ call = NoCall
    /\ synced = <<>>
    /\ row_in \in {Row_from(t) : t \in SeqsUpTo(Chars, MaxRowLen)}
    /\ row = row_in
    /\ row_calls = <<>>
    /\ row_ret = Row_default

RowIndices == 0..(MaxRowLen + 1)

RowInsertOrAppendCall(idx, c) ==
    /\ Len(row_calls) < MaxRowCalls
    /\ row' = Row_insert_or_append(row, idx, c)
    /\ row_calls' = Append(row_calls, [fn |-> "insert_or_append", idx |-> idx, c |-> c])
    /\ UNCHANGED <<editorVars, document, disk, call, synced, row_in, row_ret>>

RowDeleteCall(idx) ==
    /\ Len(row_calls) < MaxRowCalls
    /\ row' = Row_delete(row, idx)
    /\ row_calls' = Append(row_calls, [fn |-> "delete", idx |-> idx, c |-> ""])
    /\ UNCHANGED <<editorVars, document, disk, call, synced, row_in, row_ret>>

\* Row::split(idx): the row keeps the part before, the part after is returned
RowSplitCall(idx) ==
    /\ Len(row_calls) < MaxRowCalls
    /\ row' = Row_split(row, idx).self
    /\ row_ret' = Row_split(row, idx).ret
    /\ row_calls' = Append(row_calls, [fn |-> "split", idx |-> idx, c |-> ""])
    /\ UNCHANGED <<editorVars, document, disk, call, synced, row_in>>

\* Row::push(other), with the row that split returned as `other`, moved in
RowPushCall ==
    /\ Len(row_calls) < MaxRowCalls
    /\ row' = Row_push(row, row_ret)
    /\ row_ret' = Row_default
    /\ row_calls' = Append(row_calls, [fn |-> "push", idx |-> 0, c |-> ""])
    /\ UNCHANGED <<editorVars, document, disk, call, synced, row_in>>

NextRow ==
    \/ \E idx \in RowIndices, c \in Chars : RowInsertOrAppendCall(idx, c)
    \/ \E idx \in RowIndices : RowDeleteCall(idx)
    \/ \E idx \in RowIndices : RowSplitCall(idx)
    \/ RowPushCall

SpecRow == InitRow /\ [][NextRow]_vars

----------------------------------------------------------------------------
(* Document methods *)

DocPositions == {Position(x, y) : x \in 0..(MaxDocScalars + 1), y \in 0..(MaxDocRows + 1)}

InsertCall(pos, c) ==
    /\ document' = Document_insert_or_append(document, pos, c)
    /\ call' = [NoCall EXCEPT !.fn = "insert_or_append", !.pos = pos, !.c = c]
    /\ UNCHANGED <<editorVars, rowVars, disk, synced>>

DeleteCall(pos) ==
    /\ document' = Document_delete(document, pos)
    /\ call' = [NoCall EXCEPT !.fn = "delete", !.pos = pos]
    /\ UNCHANGED <<editorVars, rowVars, disk, synced>>

SetPathCall(path) ==
    /\ document' = Document_set_path(document, path)
    /\ call' = [NoCall EXCEPT !.fn = "set_path", !.path = Some(path)]
    /\ UNCHANGED <<editorVars, rowVars, disk, synced>>

SaveCall(io) ==
    LET r == Document_save(document, disk, io) IN
    /\ document' = r.doc
    /\ disk' = r.disk
    /\ synced' = IF r.ok /\ WroteEveryRow(document, io) THEN document.rows ELSE synced
    /\ call' = [NoCall EXCEPT !.fn = "save", !.io = io, !.ok = r.ok]
    /\ UNCHANGED <<editorVars, rowVars>>

\* Document::open(path) replacing the document under test; an I/O error leaves it
OpenCall(path) ==
    LET r == Document_open(path, disk) IN
    /\ document' = IF r = None THEN document ELSE r[1]
    /\ synced' = IF r = None THEN synced ELSE r[1].rows
    /\ call' = [NoCall EXCEPT !.fn = "open", !.path = Some(path), !.ok = (r # None)]
    /\ UNCHANGED <<editorVars, rowVars, disk>>

(* One Document method applied to a Document drawn from the bounded set *)

InitDocCall ==
    /\ EditorIdle
    /\ RowIdle
    /\ \E rows \in DocRowsUpTo(MaxDocRows, MaxDocScalars), d \in BOOLEAN :
           document = [rows |-> rows, path |-> None, dirty |-> d]
    /\ disk = [p \in Paths |-> NoFile]
    /\ call = NoCall
    /\ synced = <<>>

NextDocCall ==
    \/ \E pos \in DocPositions, c \in DocChars \cup {LF} :
           call.fn = "none" /\ InsertCall(pos, c)
    \/ \E pos \in DocPositions : call.fn = "none" /\ DeleteCall(pos)

SpecDocCall == InitDocCall /\ [][NextDocCall]_vars

(* Sequences of Document methods on a Document as constructed *)

InitFiles == {NoFile, File(<<"a", LF>>), File(<<"a", CR, CR, LF>>)}

\* The scalar values inserted in a sequence of Document methods
SeqChars == {"a", LF}

InitDoc ==
    /\ EditorIdle
    /\ RowIdle
    /\ disk \in [Paths -> InitFiles]
    /\ document \in {Document_default}
           \cup {Document_open(p, disk)[1] : p \in {q \in Paths : disk[q].exists}}
    /\ call = NoCall
    /\ synced = document.rows

\* The bounds on growth
FitsSeq(doc) == Len(doc.rows) <= MaxSeqRows /\ ScalarsIn(doc.rows) <= MaxSeqScalars

SeqPositions == {Position(x, y) : x \in 0..MaxSeqScalars, y \in 0..MaxSeqRows}

NextDoc ==
    \/ \E pos \in SeqPositions, c \in SeqChars :
           FitsSeq(Document_insert_or_append(document, pos, c)) /\ InsertCall(pos, c)
    \/ \E pos \in SeqPositions : DeleteCall(pos)
    \/ \E p \in Paths : SetPathCall(p)
    \/ \E io \in SaveOutcomes(document) : SaveCall(io)
    \/ \E p \in Paths : OpenCall(p)

SpecDoc == InitDoc /\ [][NextDoc]_vars

----------------------------------------------------------------------------
(* Row::find and Document::find, called once on a Row or a Document drawn from *)
(* the bounded sets, with a pattern that parsed                                *)

Patterns == SeqsUpTo(DocChars, MaxPattern)

Directions == {Forward, Backward}

\* The limit positions, up to one past the last row and the longest row
FindPositions == {Position(x, y) : x \in 0..(MaxFindScalars + 1), y \in 0..(MaxFindRows + 1)}

InitFind ==
    /\ EditorIdle
    /\ disk = [p \in Paths |-> NoFile]
    /\ call = NoCall
    /\ synced = <<>>
    /\ row_calls = <<>>
    /\ row_ret = Row_default
    /\ \/ /\ row_in \in {Row_from(t) : t \in SeqsUpTo(Chars, MaxRowLen)}
          /\ document = Document_default
       \/ /\ row_in = Row_default
          /\ \E rows \in DocRowsUpTo(MaxFindRows, MaxFindScalars) :
                 document = [rows |-> rows, path |-> None, dirty |-> FALSE]
    /\ row = row_in

\* Row::find(query, limit, direction) on the Row under test
RowFindCall(q, limit, direction) ==
    /\ call.fn = "none"
    /\ call' = [NoCall EXCEPT !.fn = "row_find", !.query = q, !.pos = Position(limit, 0),
                              !.direction = direction,
                              !.found = Row_find(row, q, limit, direction)]
    /\ UNCHANGED <<editorVars, rowVars, document, disk, synced>>

\* Document::find(query, limit, direction) on the Document under test
FindCall(q, limit, direction) ==
    /\ call.fn = "none"
    /\ call' = [NoCall EXCEPT !.fn = "find", !.query = q, !.pos = limit,
                              !.direction = direction,
                              !.found = Document_find(document, q, limit, direction)]
    /\ UNCHANGED <<editorVars, rowVars, document, disk, synced>>

NextFind ==
    \/ \E q \in Patterns, limit \in RowIndices, d \in Directions : RowFindCall(q, limit, d)
    \/ \E q \in Patterns, limit \in FindPositions, d \in Directions : FindCall(q, limit, d)

SpecFind == InitFind /\ [][NextFind]_vars

----------------------------------------------------------------------------
(* The editor's control loop: Editor::run reads one key at a time              *)
(* (process_keypress), and Editor::prompt, inside a search, reads its own.     *)

Self == [document |-> document, cursor_position |-> cursor_position,
         offset |-> offset, terminal |-> terminal]

Becomes(e) ==
    /\ document' = e.document
    /\ cursor_position' = e.cursor_position
    /\ offset' = e.offset
    /\ terminal' = e.terminal

harnessVars == <<disk, call, synced, row, row_in, row_calls, row_ret, typed>>

NavKeys == {"Up", "Down", "Left", "Right", "PageUp", "PageDown", "Home", "End"}

Pressed(k, c) == pressed_key' = [key |-> k, c |-> c]

\* The bounds on growth
Fits(doc, maxRows, maxScalars) ==
    Len(doc.rows) <= maxRows /\ ScalarsIn(doc.rows) <= maxScalars

\* Key::Up | Key::Down | Key::Left | Key::Right | Key::PageUp | Key::PageDown |
\* Key::Home | Key::End
KeyMove(k) ==
    /\ pc = "run"
    /\ Pressed(k, "")
    /\ Becomes(move_cursor(Self, k))
    /\ UNCHANGED <<should_quit, status_message, pc, result, old_pos, prompt_ret, harnessVars>>

\* Key::Char(c)
KeyChar(c, maxRows, maxScalars) ==
    /\ pc = "run"
    /\ Fits(Document_insert_or_append(document, cursor_position, c), maxRows, maxScalars)
    /\ Pressed("Char", c)
    /\ Becomes(press_char(Self, c))
    /\ UNCHANGED <<should_quit, status_message, pc, result, old_pos, prompt_ret, harnessVars>>

\* Key::Delete
KeyDelete ==
    /\ pc = "run"
    /\ Pressed("Delete", "")
    /\ Becomes(press_delete(Self))
    /\ UNCHANGED <<should_quit, status_message, pc, result, old_pos, prompt_ret, harnessVars>>

\* Key::Backspace
KeyBackspace ==
    /\ pc = "run"
    /\ Pressed("Backspace", "")
    /\ Becomes(press_backspace(Self))
    /\ UNCHANGED <<should_quit, status_message, pc, result, old_pos, prompt_ret, harnessVars>>

\* Key::F(1)
KeyF1 ==
    /\ pc = "run"
    /\ Pressed("F1", "")
    /\ status_message' = "help"
    /\ UNCHANGED <<should_quit, terminal, document, cursor_position, offset, pc, result,
                   old_pos, prompt_ret, harnessVars>>

\* Key::Ctrl('q'): Editor::run returns after the next refresh
KeyCtrlQ ==
    /\ pc = "run"
    /\ Pressed("CtrlQ", "")
    /\ should_quit' = TRUE
    /\ pc' = "exited"
    /\ UNCHANGED <<terminal, document, status_message, cursor_position, offset, result,
                   old_pos, prompt_ret, harnessVars>>

\* Key::Ctrl('f'): Editor::search saves the cursor and enters Editor::prompt
KeyCtrlF ==
    /\ pc = "run"
    /\ Pressed("CtrlF", "")
    /\ old_pos' = cursor_position
    /\ result' = <<>>
    /\ status_message' = "prompt"
    /\ pc' = "search"
    /\ UNCHANGED <<should_quit, terminal, document, cursor_position, offset, prompt_ret,
                   harnessVars>>

\* In the prompt, Key::Char(c) other than the newline: pushed, then the callback
PromptChar(c) ==
    /\ pc = "search"
    /\ Len(result) < MaxQuery
    /\ Pressed("Char", c)
    /\ result' = Append(result, c)
    /\ Becomes(search_callback(Self, "Char", result'))
    /\ UNCHANGED <<should_quit, status_message, pc, old_pos, prompt_ret, harnessVars>>

\* In the prompt, Key::Backspace: popped, then the callback
PromptBackspace ==
    /\ pc = "search"
    /\ Pressed("Backspace", "")
    /\ result' = IF result # <<>> THEN SubSeq(result, 1, Len(result) - 1) ELSE result
    /\ Becomes(search_callback(Self, "Backspace", result'))
    /\ UNCHANGED <<should_quit, status_message, pc, old_pos, prompt_ret, harnessVars>>

\* In the prompt, any other key that does not end it: the callback alone
PromptOther(k) ==
    /\ pc = "search"
    /\ Pressed(k, "")
    /\ Becomes(search_callback(Self, k, result))
    /\ UNCHANGED <<should_quit, status_message, pc, result, old_pos, prompt_ret, harnessVars>>

\* The prompt returns `ret`; Editor::search finishes
PromptEnds(ret) ==
    /\ status_message' = ""
    /\ prompt_ret' = ret
    /\ Becomes(search_end(Self, ret, old_pos))
    /\ result' = <<>>
    /\ old_pos' = Position(0, 0)
    /\ pc' = "run"
    /\ UNCHANGED <<should_quit, harnessVars>>

\* In the prompt, Key::Char('\n')
PromptEnter ==
    /\ pc = "search"
    /\ Pressed("Char", LF)
    /\ PromptEnds(IF result = <<>> THEN None ELSE Some(result))

\* In the prompt, Key::Esc | Key::Ctrl('q'): the result is cleared
PromptCancel(k) ==
    /\ pc = "search"
    /\ Pressed(k, "")
    /\ PromptEnds(None)

\* Editor::from_file_path / Editor::default, with Terminal::init's size
EditorStarts(doc, size, message) ==
    /\ should_quit = FALSE
    /\ terminal = size
    /\ document = doc
    /\ status_message = message
    /\ cursor_position = Position(0, 0)
    /\ offset = Position(0, 0)
    /\ pc = "run"
    /\ result = <<>>
    /\ old_pos = Position(0, 0)
    /\ pressed_key = [key |-> "none", c |-> ""]
    /\ prompt_ret = None
    /\ typed = None
    /\ call = NoCall
    /\ synced = <<>>
    /\ RowIdle

\* The scalar values typed into the document and into the search prompt
TypedChars == {"a", Mark, LF}
QueryChars == {"a", Mark, "("}

(* Editing a short document *)

EditFile == File(<<"a", Mark, LF, LF, "a", LF>>)
EditSizes == {[width |-> 1, height |-> 1], [width |-> 2, height |-> 2]}

Init ==
    /\ disk = [p \in Paths |-> EditFile]
    /\ \E size \in EditSizes :
           \/ EditorStarts(Document_default, size, "")
           \/ \E p \in Paths :
                  /\ disk[p].exists
                  /\ EditorStarts(Document_open(p, disk)[1], size, "help")

Next ==
    \/ \E k \in NavKeys : KeyMove(k)
    \/ \E c \in TypedChars : KeyChar(c, MaxEditRows, MaxEditScalars)
    \/ KeyDelete
    \/ KeyBackspace
    \/ KeyF1
    \/ KeyCtrlQ
    \/ KeyCtrlF
    \/ \E c \in QueryChars : PromptChar(c)
    \/ PromptBackspace
    \/ \E k \in {"Right", "Down", "Left", "Up", "Delete"} : PromptOther(k)
    \/ PromptEnter
    \/ \E k \in {"Esc", "CtrlQ"} : PromptCancel(k)

Spec == Init /\ [][Next]_vars

(* Starting the program: main, with or without a file name *)

StartFiles == {NoFile, File(<<"a", LF>>), File(<<NotUtf8, LF>>)}
StartSizes == {None, Some([width |-> 2, height |-> 2])}

\* The state main leaves: the editor about to run, or the process gone
InitStart ==
    /\ disk \in [Paths -> StartFiles]
    /\ \E arg \in {None} \cup {Some(p) : p \in Paths}, term \in StartSizes :
           LET m == main(arg, disk, term) IN
           /\ call = [NoCall EXCEPT !.fn = "main", !.path = arg, !.ok = (term # None)]
           /\ pc = m.outcome
           /\ document = m.editor.document
           /\ status_message = m.editor.status_message
           /\ terminal = IF term = None THEN [width |-> 0, height |-> 0] ELSE term[1]
    /\ should_quit = FALSE
    /\ cursor_position = Position(0, 0)
    /\ offset = Position(0, 0)
    /\ result = <<>>
    /\ old_pos = Position(0, 0)
    /\ pressed_key = [key |-> "none", c |-> ""]
    /\ prompt_ret = None
    /\ typed = None
    /\ synced = <<>>
    /\ RowIdle

NextStart ==
    \/ \E k \in NavKeys : KeyMove(k)
    \/ \E c \in TypedChars : KeyChar(c, MaxEditRows, MaxEditScalars)
    \/ KeyDelete
    \/ KeyBackspace
    \/ KeyF1
    \/ KeyCtrlQ

SpecStart == InitStart /\ [][NextStart]_vars

(* Typing a character and taking it back with Backspace *)

TypeSizes == {[width |-> 4, height |-> 2]}

InitTyping ==
    /\ disk = [p \in Paths |-> EditFile]
    /\ \E size \in TypeSizes :
           \/ EditorStarts(Document_default, size, "")
           \/ \E p \in Paths : EditorStarts(Document_open(p, disk)[1], size, "help")

\* Key::Char(c), with the rows and the cursor it found kept in `typed`
TypeKey(c) ==
    /\ pc = "run"
    /\ typed = None
    /\ Fits(Document_insert_or_append(document, cursor_position, c),
            MaxEditRows + 1, MaxEditScalars + 1)
    /\ Pressed("Char", c)
    /\ Becomes(press_char(Self, c))
    /\ typed' = Some([rows |-> document.rows, cursor |-> cursor_position, c |-> c])
    /\ UNCHANGED <<should_quit, status_message, pc, result, old_pos, prompt_ret,
                   disk, call, synced, rowVars>>

\* Keys pressed freely, then one character kept track of, then Backspace
NextTyping ==
    \/ \E k \in NavKeys : typed = None /\ KeyMove(k)
    \/ \E c \in TypedChars : typed = None /\ KeyChar(c, MaxEditRows, MaxEditScalars)
    \/ typed = None /\ KeyDelete
    \/ (typed = None \/ pressed_key.key = "Char") /\ KeyBackspace
    \/ \E c \in TypedChars : TypeKey(c)

SpecTyping == InitTyping /\ [][NextTyping]_vars

(* Saving: Ctrl-S and Ctrl-W, and the "Save as: " prompt.  A path is the      *)
(* string typed into the prompt.                                               *)

PathChars == {"p", "q"}
SavePaths == SeqsUpTo(PathChars, MaxPath) \ {<<>>}
SaveFile == File(<<"a", LF>>)
SaveSizes == {[width |-> 4, height |-> 2]}
SaveChars == {"a", LF}

SaveWritten == "written"
SaveError == "Error writing to file"
SaveAborted == "Save aborted"

\* Document::get_path_string
Document_get_path_string(doc) == doc.path

\* Editor::save, from the call of Document::save on: the document, the file
\* system and the status message
save_document(doc, fs, io) ==
    LET r == Document_save(doc, fs, io)
    IN [document |-> r.doc, disk |-> r.disk,
        status_message |-> IF r.ok THEN SaveWritten ELSE SaveError]

\* Editor::save, from the return of the prompt on
save_prompted(doc, path, fs, io) ==
    IF path = None
    THEN [document |-> doc, disk |-> fs, status_message |-> SaveAborted]
    ELSE save_document(Document_set_path(doc, path[1]), fs, io)

\* Editor::save entering Editor::prompt("Save as: ", get_path_string, no-op)
SavePromptOpens ==
    /\ result' = unwrap_or(Document_get_path_string(document), <<>>)
    /\ status_message' = "prompt"
    /\ pc' = "save_as"
    /\ UNCHANGED <<should_quit, terminal, document, cursor_position, offset, old_pos,
                   prompt_ret, harnessVars>>

\* What Editor::save leaves behind when it returns
Saved(out) ==
    /\ document' = out.document
    /\ disk' = out.disk
    /\ status_message' = out.status_message
    /\ pc' = "run"
    /\ UNCHANGED <<should_quit, terminal, cursor_position, offset, old_pos,
                   call, synced, rowVars, typed>>

\* Key::Ctrl('s'): save(false)
KeyCtrlS(io) ==
    /\ pc = "run"
    /\ Pressed("CtrlS", "")
    /\ IF Document_has_path(document)
       THEN Saved(save_document(document, disk, io)) /\ UNCHANGED <<result, prompt_ret>>
       ELSE SavePromptOpens

\* Key::Ctrl('w'): save(true)
KeyCtrlW ==
    /\ pc = "run"
    /\ Pressed("CtrlW", "")
    /\ SavePromptOpens

\* In the prompt, Key::Char(c) other than the newline
SavePromptChar(c) ==
    /\ pc = "save_as"
    /\ Len(result) < MaxPath
    /\ Pressed("Char", c)
    /\ result' = Append(result, c)
    /\ UNCHANGED <<should_quit, terminal, document, status_message, cursor_position,
                   offset, pc, old_pos, prompt_ret, harnessVars>>

\* In the prompt, Key::Backspace
SavePromptBackspace ==
    /\ pc = "save_as"
    /\ Pressed("Backspace", "")
    /\ result' = IF result # <<>> THEN SubSeq(result, 1, Len(result) - 1) ELSE result
    /\ UNCHANGED <<should_quit, terminal, document, status_message, cursor_position,
                   offset, pc, old_pos, prompt_ret, harnessVars>>

\* In the prompt, any other key that does not end it
SavePromptOther(k) ==
    /\ pc = "save_as"
    /\ Pressed(k, "")
    /\ UNCHANGED <<should_quit, terminal, document, status_message, cursor_position,
                   offset, pc, result, old_pos, prompt_ret, harnessVars>>

\* The prompt returns `ret`; Editor::save goes on
SavePromptEnds(ret, io) ==
    /\ prompt_ret' = ret
    /\ result' = <<>>
    /\ Saved(save_prompted(document, ret, disk, io))

\* In the prompt, Key::Char('\n')
SavePromptEnter(io) ==
    /\ pc = "save_as"
    /\ Pressed("Char", LF)
    /\ SavePromptEnds(IF result = <<>> THEN None ELSE Some(result), io)

\* In the prompt, Key::Esc | Key::Ctrl('q'): the result is cleared
SavePromptCancel(k) ==
    /\ pc = "save_as"
    /\ Pressed(k, "")
    /\ SavePromptEnds(None, [kind |-> "ok", at |-> 0])

\* In the prompt, refresh_screen or read_key fails: prompt(..).unwrap_or(None)
SavePromptFails ==
    /\ pc = "save_as"
    /\ UNCHANGED pressed_key
    /\ SavePromptEnds(None, [kind |-> "ok", at |-> 0])

InitSave ==
    /\ disk = [p \in SavePaths |-> IF p = <<"p">> THEN SaveFile ELSE NoFile]
    /\ \E size \in SaveSizes :
           \/ EditorStarts(Document_default, size, "")
           \/ EditorStarts(Document_open(<<"p">>, disk)[1], size, "help")

NextSave ==
    \/ \E c \in SaveChars : KeyChar(c, MaxSeqRows, MaxSeqScalars)
    \/ KeyBackspace
    \/ \E io \in SaveOutcomes(document) : KeyCtrlS(io)
    \/ KeyCtrlW
    \/ \E c \in PathChars : SavePromptChar(c)
    \/ SavePromptBackspace
    \/ \E k \in {"Left", "Right"} : SavePromptOther(k)
    \/ \E io \in SaveOutcomes(document) : SavePromptEnter(io)
    \/ \E k \in {"Esc", "CtrlQ"} : SavePromptCancel(k)
    \/ SavePromptFails

SpecSave == InitSave /\ [][NextSave]_vars

(* Scrolling over a long document *)

LongFile == File([i \in 1..LongRows |-> LF])
LongSizes == {[width |-> 2, height |-> h] : h \in {3, 11}}

InitScroll ==
    /\ disk = [p \in Paths |-> LongFile]
    /\ \E size \in LongSizes, p \in Paths :
           EditorStarts(Document_open(p, disk)[1], size, "help")

NextScroll ==
    \/ \E k \in NavKeys : KeyMove(k)
    \/ \E c \in {"a", LF} : KeyChar(c, LongRows + 1, MaxLongScalars)
    \/ KeyDelete
    \/ KeyBackspace

SpecScroll == InitScroll /\ [][NextScroll]_vars

----------------------------------------------------------------------------
(* Claims *)

Contents(rows) == [i \in 1..Len(rows) |-> rows[i].content]

\* C5 (as claimed): whenever the dirty flag is false, the rows are the rows as
\* loaded (or as constructed) or as written out by the most recent save that put
\* every row into the file at the document's path without an I/O error.
C5_CleanMeansSynced == ~document.dirty => document.rows = synced

\* C8: Document.delete at (x, y) with x the grapheme length of row y and y before
\* the last row makes row y the old row y followed by the old row y+1, removes row
\* y+1, lowers the row count by one and keeps every other row, in order; with
\* y >= the row count it changes neither the rows nor the dirty flag.
C8_LineJoin ==
    [][call'.fn = "delete" =>
        LET x == call'.pos.x
            y == call'.pos.y
            old == document.rows
            new == document'.rows
        IN /\ (y + 1 < Len(old) /\ x = GraphemeCount(old[y + 1].content)) =>
                  /\ Len(new) = Len(old) - 1
                  /\ new[y + 1].content = old[y + 1].content \o old[y + 2].content
                  /\ new[y + 1].grapheme_count = GraphemeCount(new[y + 1].content)
                  /\ \A i \in 1..y : new[i] = old[i]
                  /\ \A i \in (y + 3)..Len(old) : new[i - 1] = old[i]
           /\ y >= Len(old) => (new = old /\ document'.dirty = document.dirty)
    ]_vars

\* C8's case: a delete at the end of row 0 has joined "a" and the row after it,
\* a combining mark, into one row, with another row after them.
C8_Witness ==
    /\ call.fn = "delete"
    /\ call.pos = Position(1, 0)
    /\ Len(document.rows) = 2
    /\ document.rows[1].content = <<"a", Mark>>
    /\ document.rows[2].content = <<"a">>

\* C9: insert_or_append((x, y), newline) with y <= the row count replaces row y
\* (an empty row when y is the row count) by its first min(x, length) graphemes,
\* puts the remaining graphemes in a new row at y+1 and keeps every other row, in
\* order; with y > the row count it changes neither the rows nor the dirty flag.
C9_NewlineSplit ==
    [][(call'.fn = "insert_or_append" /\ call'.c = LF) =>
        LET x == call'.pos.x
            y == call'.pos.y
            old == document.rows
            new == document'.rows
            target == IF y < Len(old) THEN old[y + 1].content ELSE <<>>
            n == Min(x, GraphemeCount(target))
        IN /\ y <= Len(old) =>
                  /\ Len(new) = Max(Len(old), y + 1) + 1
                  /\ new[y + 1].content \o new[y + 2].content = target
                  /\ GraphemeCount(new[y + 1].content) = n
                  /\ \/ new[y + 2].content = <<>>
                     \/ IsBoundary(target, Len(new[y + 1].content) + 1)
                  /\ new[y + 1].grapheme_count = n
                  /\ new[y + 2].grapheme_count = GraphemeCount(target) - n
                  /\ \A i \in 1..y : new[i] = old[i]
                  /\ \A i \in (y + 2)..Len(old) : new[i + 1] = old[i]
           /\ y > Len(old) => (new = old /\ document'.dirty = document.dirty)
    ]_vars

\* C9's case: a newline at grapheme 1 of a row of two graphemes, "aM" and "a", has
\* left "aM" in row 0 and put "a" in a new row 1, before the old row 1.
C9_Witness ==
    /\ call.fn = "insert_or_append"
    /\ call.c = LF
    /\ call.pos = Position(1, 0)
    /\ Contents(document.rows) = << <<"a", Mark>>, <<"a">>, <<>> >>

LengthOfRow(rows, y) == IF y < Len(rows) THEN GraphemeCount(rows[y + 1].content) ELSE 0

\* C1: the cursor is within the buffer: cursor.y <= the row count, cursor.x <= the
\* grapheme length of row cursor.y when that row exists, and cursor.x = 0 when it
\* does not.
C1_CursorInBounds ==
    /\ cursor_position.y <= Len(document.rows)
    /\ cursor_position.x <= LengthOfRow(document.rows, cursor_position.y)

\* C1's case: Down has taken the cursor from a longer row onto an empty one, at
\* column 0.
C1_Witness ==
    /\ pressed_key.key = "Down"
    /\ cursor_position = Position(0, 1)
    /\ Len(document.rows) >= 2
    /\ LengthOfRow(document.rows, 0) = 2
    /\ LengthOfRow(document.rows, 1) = 0

\* C2 (as claimed): the viewport offset is at most the cursor in both axes, at
\* every viewport height >= 1 and width >= 1.
C2_OffsetAtMostCursor ==
    (terminal.height >= 1 /\ terminal.width >= 1) =>
        (offset.y <= cursor_position.y /\ offset.x <= cursor_position.x)

\* C3: with the margin 5, a viewport height h >= 11 and more than h rows, the
\* visible rows above the cursor number at least min(5, cursor.y) and those below
\* it at least min(5, rowCount - 1 - cursor.y); and a cursor arriving on a row
\* y < offset.y + 5 makes the offset max(0, y - 5).
C3_ScrollMargin ==
    /\ [](LET h == terminal.height
              n == Len(document.rows)
              y == cursor_position.y
          IN (h >= 11 /\ n > h) =>
                 /\ y - offset.y >= Min(5, y)
                 /\ offset.y + h - 1 - y >= Min(5, n - 1 - y))
    /\ [][(/\ terminal.height >= 11
            /\ Len(document.rows) > terminal.height
            /\ Len(document'.rows) > terminal.height
            /\ cursor_position'.y < offset.y + 5)
              => offset'.y = Max(0, cursor_position'.y - 5)]_vars

\* C3's case: in 12 rows seen through 11, Up has brought the cursor from the
\* bottom to row 5, and the offset has followed it to 0.
C3_Witness ==
    /\ terminal.height = 11
    /\ Len(document.rows) = 12
    /\ pressed_key.key = "Up"
    /\ cursor_position.y = 5
    /\ offset.y = 0
    /\ document.dirty

\* C4 (as claimed): the vertical offset never passes the end of the document:
\* offset.y <= max(0, rowCount - viewportHeight).
C4_OffsetWithinDocument ==
    offset.y <= Max(0, Len(document.rows) - terminal.height)

\* C6: Left at column 0 of a row y > 0 goes to the end of row y-1; Right at the
\* end of a row before the last goes to column 0 of the next row; Left at (0,0)
\* and Right at the end of the last row change nothing; otherwise Left and Right
\* change x by one and leave y.  (With no rows at all, Right stays at (0,0).)
C6_LeftRight ==
    [][(pc = "run" /\ pressed_key'.key \in {"Left", "Right"}) =>
        LET x == cursor_position.x
            y == cursor_position.y
            rows == document.rows
            len == LengthOfRow(rows, y)
        IN /\ document' = document
           /\ cursor_position' =
                  IF pressed_key'.key = "Left"
                  THEN IF x = 0 /\ y > 0 THEN Position(LengthOfRow(rows, y - 1), y - 1)
                       ELSE IF x = 0 THEN Position(0, 0)
                       ELSE Position(x - 1, y)
                  ELSE IF x = len /\ y < Len(rows) - 1 THEN Position(0, y + 1)
                       ELSE IF x = len THEN Position(x, y)
                       ELSE Position(x + 1, y)
    ]_vars

\* C6's case: Left at column 0 of row 1 has put the cursor at the end of row 0,
\* after its two graphemes.
C6_Witness ==
    /\ pc = "run"
    /\ pressed_key.key = "Left"
    /\ cursor_position = Position(2, 0)
    /\ LengthOfRow(document.rows, 0) = 2
    /\ Len(document.rows) >= 2

\* C7: Backspace at (0,0) leaves the rows, the dirty flag and the cursor; anywhere
\* else its effect on the rows and the cursor is that of Left and then
\* Document.delete at the cursor Left arrived at, so that at column 0 of a row
\* y > 0 it joins row y onto row y-1 with the cursor at the old end of row y-1.
C7_Backspace ==
    [][(pc = "run" /\ pressed_key'.key = "Backspace") =>
        LET x == cursor_position.x
            y == cursor_position.y
            old == document.rows
            new == document'.rows
            left == IF x > 0 THEN Position(x - 1, y)
                    ELSE Position(LengthOfRow(old, y - 1), y - 1)
        IN IF x = 0 /\ y = 0
           THEN /\ new = old
                /\ document'.dirty = document.dirty
                /\ cursor_position' = cursor_position
           ELSE /\ new = Document_delete(document, left).rows
                /\ cursor_position' = left
                /\ (x = 0 /\ y < Len(old)) =>
                       /\ Len(new) = Len(old) - 1
                       /\ new[y].content = old[y].content \o old[y + 1].content
    ]_vars

\* C7's case: Backspace at column 0 of row 1 has joined "a" onto the row "aM"
\* before it, and the cursor stands after that row's one old grapheme.
C7_Witness ==
    /\ pc = "run"
    /\ pressed_key.key = "Backspace"
    /\ cursor_position = Position(1, 0)
    /\ Len(document.rows) >= 1
    /\ document.rows[1].content = <<"a", Mark, "a">>

\* C11: split(i) leaves the first min(i, length) graphemes in the row and returns
\* the rest as a row of its own, both with their grapheme counts, cutting between
\* two graphemes; with i >= length the row is unchanged and the returned row is
\* empty; and split(i) followed by push of the returned row gives back the row's
\* content and grapheme count.
C11_SplitPush ==
    /\ [][(/\ Len(row_calls') = Len(row_calls) + 1
            /\ row_calls'[Len(row_calls')].fn = "split") =>
              LET i == row_calls'[Len(row_calls')].idx
                  s == row.content
                  n == GraphemeCount(s)
                  k == Min(i, n)
              IN /\ row'.content \o row_ret'.content = s
                 /\ row'.grapheme_count = k
                 /\ GraphemeCount(row'.content) = k
                 /\ row_ret'.grapheme_count = n - k
                 /\ GraphemeCount(row_ret'.content) = n - k
                 /\ row_ret'.content = <<>> \/ IsBoundary(s, Len(row'.content) + 1)
                 /\ i >= n => (row' = row /\ row_ret'.content = <<>>)
          ]_vars
    /\ []((/\ Len(row_calls) = 2
           /\ row_calls[1].fn = "split"
           /\ row_calls[2].fn = "push") => row = row_in)

\* C11's case: "aMb" was split at grapheme 1, between the cluster "aM" and "b",
\* and the returned row was pushed back.
C11_Witness ==
    /\ row_in.content = <<"a", Mark, "b">>
    /\ row_calls = <<[fn |-> "split", idx |-> 1, c |-> ""],
                     [fn |-> "push", idx |-> 0, c |-> ""]>>
    /\ row.content = <<"a", Mark, "b">>
    /\ row.grapheme_count = 2

\* Position a is before position b, by row and then by grapheme column
Before(a, b) == a.y < b.y \/ (a.y = b.y /\ a.x < b.x)

\* C12: a Backward Document.find from p returns no position at or after p, and a
\* Forward one returns no position before p.
C12_DirectionBound ==
    (call.fn = "find" /\ call.found # None) =>
        IF call.direction = Backward
        THEN Before(call.found[1], call.pos)
        ELSE ~Before(call.found[1], call.pos)

\* C12's case: a Backward find from column 0 of row 1 has found the pattern in
\* row 0, at its second grapheme.
C12_Witness ==
    /\ call.fn = "find"
    /\ call.direction = Backward
    /\ call.query = <<"a">>
    /\ call.pos = Position(0, 1)
    /\ call.found = Some(Position(1, 0))

SetMax(S) == CHOOSE m \in S : \A n \in S : m >= n

\* The grapheme indices in [from, to) of text s at which a match of the pattern
\* begins that lies within the graphemes [0, to)
MatchStarts(q, s, from, to) ==
    LET within == TakeGraphemes(s, to)
    IN {i \in from..(Min(to, GraphemeCount(s)) - 1) :
            MatchesAt(q, within, GraphemeStart(s, i) - 1)}

\* C13 (as claimed): with limit <= length, a Backward Row.find returns the
\* greatest grapheme index below limit at which a match lying within the
\* graphemes [0, limit) begins, and none only when there is no such index.
C13_BackwardRightmost ==
    (/\ call.fn = "row_find"
     /\ call.direction = Backward
     /\ call.pos.x <= GraphemeCount(row.content)) =>
        LET starts == MatchStarts(call.query, row.content, 0, call.pos.x)
        IN call.found = IF starts = {} THEN None ELSE Some(SetMax(starts))

\* The rows a Document.find from limit scans, and the grapheme indices in row y
\* (counted from 0) at which a match it may return begins
ScannedRows(rows, limit, direction) ==
    IF direction = Forward THEN limit.y..(Len(rows) - 1)
    ELSE 0..Min(limit.y, Len(rows) - 1)

MatchesInRow(q, rows, y, limit, direction) ==
    LET s == rows[y + 1].content
    IN IF direction = Forward
       THEN MatchStarts(q, s, IF y = limit.y THEN limit.x ELSE 0, GraphemeCount(s))
       ELSE MatchStarts(q, s, 0, IF y = limit.y THEN limit.x ELSE GraphemeCount(s))

\* C14 (as claimed): Document.find returns a match in the first scanned row, in
\* scan order, that has one (from limit.x on in row limit.y going Forward, before
\* limit.x there going Backward, anywhere in the other rows), and none only when
\* no scanned row has one.
C14_FirstInScanOrder ==
    call.fn = "find" =>
        LET rows == document.rows
            with == {y \in ScannedRows(rows, call.pos, call.direction) :
                        MatchesInRow(call.query, rows, y, call.pos, call.direction) # {}}
        IN IF with = {} THEN call.found = None
           ELSE /\ call.found # None
                /\ call.found[1].y = IF call.direction = Forward THEN SetMin(with)
                                      ELSE SetMax(with)
                /\ call.found[1].x \in MatchesInRow(call.query, rows, call.found[1].y,
                                                     call.pos, call.direction)

\* C15: Escape or Ctrl-Q in a search session puts the cursor back where it was
\* when the session began, ends the session, and the prompt yields no query.
C15_CancelRestores ==
    [][(pc = "search" /\ pressed_key'.key \in {"Esc", "CtrlQ"}) =>
           /\ cursor_position' = old_pos
           /\ prompt_ret' = None
           /\ pc' = "run"
           /\ document' = document
      ]_vars

\* C15's case: Escape has ended a search session that began with the cursor at
\* the end of the last of three rows, and the cursor stands there.
C15_Witness ==
    /\ pc = "run"
    /\ pressed_key.key = "Esc"
    /\ prompt_ret = None
    /\ cursor_position = Position(1, 2)
    /\ Len(document.rows) = 3

\* The direction a key pressed in the search prompt asks for, and whether the
\* cursor peeks forward before the search
KeyDirection(k) == IF k \in {"Left", "Up"} THEN Backward ELSE Forward
KeyPeeks(k) == k \in {"Right", "Down"}

\* C16 (as claimed): a keystroke of a search session (a typed character,
\* Backspace, Right, Down, Left or Up) after which the query does not parse, or
\* has no match in the key's direction, leaves the cursor where it was, and the
\* session goes on.
C16_NoMatchKeepsCursor ==
    [][(/\ pc = "search"
        /\ pressed_key'.key \in {"Char", "Backspace", "Right", "Down", "Left", "Up"}
        /\ ~(pressed_key'.key = "Char" /\ pressed_key'.c = LF)
        /\ LET from == IF KeyPeeks(pressed_key'.key)
                        THEN move_cursor(Self, "Right").cursor_position
                        ELSE cursor_position
           IN \/ ~RegexValid(result')
              \/ Document_find(document, result', from, KeyDirection(pressed_key'.key)) = None)
          => (cursor_position' = cursor_position /\ pc' = "search")
      ]_vars

\* C17 (as claimed): Enter in a search session leaves the cursor where the last
\* keystroke of the session put it.
C17_AcceptKeepsCursor ==
    [][(pc = "search" /\ pressed_key'.key = "Char" /\ pressed_key'.c = LF) =>
           (cursor_position' = cursor_position /\ pc' = "run")
      ]_vars

\* The bytes of the rows, each followed by one line feed
RECURSIVE EachRowThenLF(_)
EachRowThenLF(rows) ==
    IF rows = <<>> THEN <<>> ELSE rows[1].content \o <<LF>> \o EachRowThenLF(Tail(rows))

\* C18 (as claimed): a save that succeeds leaves in the file each row followed by
\* exactly one line feed, and opening the saved path next gives as many rows as
\* the document had at the save, with the same content row by row.
C18_SaveOpenRoundTrip ==
    /\ [][(call'.fn = "save" /\ call'.ok /\ document.path # None) =>
              disk'[document.path[1]].bytes = EachRowThenLF(document.rows)]_vars
    /\ [][(/\ call.fn = "save" /\ call.ok /\ document.path # None
            /\ call'.fn = "open" /\ call'.path = document.path) =>
              (call'.ok /\ Contents(document'.rows) = Contents(document.rows))]_vars

\* The text cut at each line feed, the line feeds dropped and nothing else; text
\* after the last line feed is a line when it is not empty
RECURSIVE SplitAtLF(_)
SplitAtLF(bytes) ==
    IF bytes = <<>> THEN <<>>
    ELSE LET nl == {i \in 1..Len(bytes) : bytes[i] = LF} IN
         IF nl = {} THEN <<bytes>>
         ELSE <<SubSeq(bytes, 1, SetMin(nl) - 1)>>
                  \o SplitAtLF(SubSeq(bytes, SetMin(nl) + 1, Len(bytes)))

\* C19 (as claimed): open cuts the file at line feeds only, so that a carriage
\* return right before a line feed stays the last character of its row.
C19_SplitByLineFeedOnly ==
    (call.fn = "open" /\ call.ok) =>
        Contents(document.rows) = SplitAtLF(disk[call.path[1]].bytes)

\* C20 (as claimed): started with a file name whose load fails, the process does
\* not abort, and the editor starts with no rows, no path, a clean document and
\* the message that the file could not be opened.
C20_LoadFailureFallback ==
    (/\ call.fn = "main"
     /\ call.path # None
     /\ Document_open(call.path[1], disk) = None) =>
        /\ pc # "panicked"
        /\ (pc = "run" /\ pressed_key.key = "none") =>
               /\ document = Document_default
               /\ status_message = "open_failed"

\* C21: the keys Up, Down, Left, Right, PageUp, PageDown, Home and End, and every
\* keystroke of a search session from Ctrl-F to the key that ends it, leave the
\* document (rows, their order, path, dirty flag), the terminal size, the quit
\* flag and the files alone.
C21_NavigationAndSearchFrame ==
    [][(\/ pc = "run" /\ pressed_key'.key \in NavKeys \cup {"CtrlF"}
        \/ pc = "search") =>
           /\ document' = document
           /\ terminal' = terminal
           /\ should_quit' = should_quit
           /\ disk' = disk
      ]_vars

\* C21's case: Enter has ended a search session that took the cursor to a match
\* of "a" on the last row of the file as loaded, which is still clean.
C21_Witness ==
    /\ pc = "run"
    /\ pressed_key = [key |-> "Char", c |-> LF]
    /\ prompt_ret = Some(<<"a">>)
    /\ cursor_position = Position(0, 2)
    /\ ~document.dirty
    /\ Contents(document.rows) = << <<"a", Mark>>, <<>>, <<"a">> >>

TypedOwnCluster ==
    LET t == typed[1]
        r == t.rows[t.cursor.y + 1]
    IN \/ t.c = LF
       \/ GraphemeCount(Row_insert_or_append(r, t.cursor.x, t.c).content)
              = GraphemeCount(r.content) + 1

C23_CursorInsideTextArea ==
    cursor_position.x - offset.x < useful_text_width(Self)

\* A step that ends a save command: Ctrl-S with a path, or the end of the
\* "Save as: " prompt
SaveCommandEnds ==
    \/ pc = "run" /\ pressed_key'.key = "CtrlS" /\ pc' = "run"
    \/ pc = "save_as" /\ pc' = "run"

\* C24: a save command that ends with an I/O error leaves the document's rows,
\* dirty flag and stored path as they were before the command (the keys of the
\* prompt change none of them, and neither does the step that reports the
\* error).
C24_FailedSaveChangesNothing ==
    [][/\ (pc' = "save_as" => document' = document)
       /\ (SaveCommandEnds /\ status_message' = SaveError => document' = document)]_vars

====
